---- MODULE Spec2Model ----
(***************************************************************************)
(* Model of the price-list extractor (src/main.py): the token classifiers, *)
(* the line classification and merge engine of parse_pdfplumber and        *)
(* parse_tabula, the deduplication and the final sort of main.             *)
(*                                                                         *)
(* Text is modelled as TLA+ strings, read character by character; the      *)
(* regular expressions of the source are modelled by the language they     *)
(* accept and, for searches, by the match the regex engine reports.        *)
(***************************************************************************)
EXTENDS Integers, Sequences, FiniteSets, TLC

\* ------------------------------------------------------------------------
\* Characters and strings
\* ------------------------------------------------------------------------
At(s, i) == SubSeq(s, i, i)

Rest(s) == SubSeq(s, 2, Len(s))

DIGITS == "0123456789"

UPPER == "ABCDEFGHIJKLMNOPQRSTUVWXYZÁÉÍÓÚÜÑ"

LOWER == "abcdefghijklmnopqrstuvwxyzáéíóúüñ"

\* Characters in code point order (the order Python compares strings by).
CODEPOINTS == " #$%,-./0123456789:ABCDEFGHIJKLMNOPQRSTUVWXYZ_abcdefghijklmnopqrstuvwxyzÁÉÍÑÓÚÜáéíñóúü"

DigitSet == {At(DIGITS, i) : i \in 1..Len(DIGITS)}

\* LETTERS = [A-Za-zÁÉÍÓÚÜÑáéíóúüñ]
LetterSet == {At(UPPER, i) : i \in 1..Len(UPPER)} \cup {At(LOWER, i) : i \in 1..Len(LOWER)}

IsDigit(c) == c \in DigitSet

IsSpace(c) == c = " "

\* \w of the regex engine, within the alphabet above
IsWordChar(c) == c \in DigitSet \/ c \in LetterSet \/ c = "_"

DigitVal(c) == CHOOSE d \in 0..9 : At(DIGITS, d + 1) = c

Ord(c) == CHOOSE i \in 1..Len(CODEPOINTS) : At(CODEPOINTS, i) = c

lower(c) == IF \E i \in 1..Len(UPPER) : At(UPPER, i) = c
            THEN At(LOWER, CHOOSE i \in 1..Len(UPPER) : At(UPPER, i) = c)
            ELSE c

RECURSIVE LowerStr(_)
LowerStr(s) == IF s = "" THEN "" ELSE lower(At(s, 1)) \o LowerStr(Rest(s))

Contains(s, sub) == \E i \in 1..(Len(s) - Len(sub) + 1) : SubSeq(s, i, i + Len(sub) - 1) = sub

RECURSIVE lstrip(_)
lstrip(s) == IF s # "" /\ IsSpace(At(s, 1)) THEN lstrip(Rest(s)) ELSE s

RECURSIVE rstrip(_)
rstrip(s) == IF s # "" /\ IsSpace(At(s, Len(s))) THEN rstrip(SubSeq(s, 1, Len(s) - 1)) ELSE s

strip(s) == rstrip(lstrip(s))

\* " ".join(toks)
RECURSIVE Join(_)
Join(toks) == IF toks = <<>> THEN ""
              ELSE IF Len(toks) = 1 THEN toks[1]
              ELSE toks[1] \o " " \o Join(Tail(toks))

\* s.replace(a, b) for one-character a
RECURSIVE Replace(_, _, _)
Replace(s, a, b) == IF s = "" THEN ""
                    ELSE (IF At(s, 1) = a THEN b ELSE At(s, 1)) \o Replace(Rest(s), a, b)

AllDigits(s) == \A i \in 1..Len(s) : IsDigit(At(s, i))

RECURSIVE StrToNat(_)
StrToNat(s) == IF s = "" THEN 0
               ELSE 10 * StrToNat(SubSeq(s, 1, Len(s) - 1)) + DigitVal(At(s, Len(s)))

RECURSIVE Pow10(_)
Pow10(k) == IF k = 0 THEN 1 ELSE 10 * Pow10(k - 1)

\* ------------------------------------------------------------------------
\* Token classifiers
\* ------------------------------------------------------------------------
\* CODE_RE = ^\d{2,6}$
IsCode(t) == Len(t) >= 2 /\ Len(t) <= 6 /\ AllDigits(t)

has_letters(s) == \E i \in 1..Len(s) : At(s, i) \in LetterSet

\* \d{1,3}(?:[seps]\d{3})*  as a language: k + 4j characters, k in 1..3
Grouped(body, seps) ==
    LET m == Len(body)
        k == ((m - 1) % 4) + 1
    IN  /\ m >= 1
        /\ k <= 3
        /\ \A i \in 1..m : IF i > k /\ (i - k) % 4 = 1
                           THEN At(body, i) \in seps
                           ELSE IsDigit(At(body, i))

\* the optional two-digit decimal part introduced by one of marks
HasDecimals(r, marks) ==
    LET n == Len(r)
    IN  n >= 3 /\ At(r, n - 2) \in marks /\ IsDigit(At(r, n - 1)) /\ IsDigit(At(r, n))

Undecimal(r, marks) == IF HasDecimals(r, marks) THEN SubSeq(r, 1, Len(r) - 3) ELSE r

\* ^\$?\s*  : what is left after the currency mark and blanks
AfterCurrency(s) == lstrip(IF s # "" /\ At(s, 1) = "$" THEN Rest(s) ELSE s)

\* PRICE_RE, first alternative: \d{1,3}(?:[.\s]\d{3})*(?:,\d{2})?
PriceAlt1(r) == Grouped(Undecimal(r, {","}), {".", " "})

\* PRICE_RE, second alternative: \d+(?:[.,]\d{2})?
PriceAlt2(r) ==
    LET body == Undecimal(r, {".", ","})
    IN  body # "" /\ AllDigits(body)

is_price_token(tok) ==
    LET r == AfterCurrency(strip(tok))
    IN  PriceAlt1(r) \/ PriceAlt2(r)

\* ^\d{1,3}(?:\.\d{3})+$
PureThousands(s) == Len(s) >= 5 /\ Grouped(s, {"."})

RECURSIVE Remove(_, _)
Remove(s, a) == IF s = "" THEN ""
                ELSE (IF At(s, 1) = a THEN "" ELSE At(s, 1)) \o Remove(Rest(s), a)

\* re.sub(r"[^\d.]", "", s)
RECURSIVE DigitsAndDots(_)
DigitsAndDots(s) == IF s = "" THEN ""
                    ELSE (IF IsDigit(At(s, 1)) \/ At(s, 1) = "." THEN At(s, 1) ELSE "")
                         \o DigitsAndDots(Rest(s))

DotCount(s) == Cardinality({i \in 1..Len(s) : At(s, i) = "."})

\* A number is <<num, den>> (num/den, den a power of ten); <<>> is None.
None == <<>>

\* float(s) for s made of digits and dots: ValueError (None here) unless s
\* has a digit and at most one dot
ParseFloat(s) ==
    IF DotCount(s) > 1 \/ Remove(s, ".") = "" THEN None
    ELSE LET dot      == IF DotCount(s) = 0 THEN Len(s) + 1
                         ELSE CHOOSE i \in 1..Len(s) : At(s, i) = "."
             fracLen  == Len(s) - dot
         IN  <<StrToNat(Remove(s, ".")), Pow10(IF fracLen < 0 THEN 0 ELSE fracLen)>>

\* the floor of to_price: v >= 1
PRICE_FLOOR == 1

\* a floor that lets zero through
AtLeastZero(v) == v[1] >= 0

AtLeastFloor(v) == v[1] >= PRICE_FLOOR * v[2]

to_price(tok) ==
    LET s0 == Remove(strip(tok), " ")
        s1 == IF PureThousands(s0) THEN Remove(s0, ".") ELSE s0
        s2 == Replace(s1, ",", ".")
        s3 == DigitsAndDots(s2)
        v  == ParseFloat(s3)
    IN  IF s3 = "" THEN None
        ELSE IF v = None THEN None
        ELSE IF AtLeastFloor(v) THEN v ELSE None

\* int(round(v)): round half to even
Round(v) ==
    LET q == v[1] \div v[2]
        r == v[1] % v[2]
    IN  IF 2 * r < v[2] THEN q
        ELSE IF 2 * r > v[2] THEN q + 1
        ELSE IF q % 2 = 0 THEN q ELSE q + 1

\* ------------------------------------------------------------------------
\* extract_unit and the description clean-up
\* ------------------------------------------------------------------------
\* the alternatives (ml|cc|l|lt|lts|litro?s?|kg|g), in the order tried
UNIT_ALTS == <<"ml", "cc", "l", "lt", "lts", "litr", "litro", "litrs", "litros", "kg", "g">>

BoundaryBefore(s, i) == i = 1 \/ ~IsWordChar(At(s, i - 1))

BoundaryAfter(s, j) == j > Len(s) \/ ~IsWordChar(At(s, j))

\* \b(\d{1,4})\s*(alt)\b matches at i with d digits, sp blanks, alternative a
UnitMatch(s, i, d, sp, a) ==
    LET u == UNIT_ALTS[a]
        j == i + d + sp
    IN  /\ j + Len(u) - 1 <= Len(s)
        /\ BoundaryBefore(s, i)
        /\ \A x \in i..(i + d - 1) : IsDigit(At(s, x))
        /\ \A x \in (i + d)..(j - 1) : IsSpace(At(s, x))
        /\ LowerStr(SubSeq(s, j, j + Len(u) - 1)) = u
        /\ BoundaryAfter(s, j + Len(u))

UnitMatchesAt(s, i) ==
    {m \in (1..4) \X (0..Len(s)) \X (1..Len(UNIT_ALTS)) : UnitMatch(s, i, m[1], m[2], m[3])}

\* the order the regex engine tries them: most digits, most blanks, first alternative
TriedBefore(m, n) ==
    \/ m[1] > n[1]
    \/ m[1] = n[1] /\ m[2] > n[2]
    \/ m[1] = n[1] /\ m[2] = n[2] /\ m[3] <= n[3]

Canonical(u) == IF u \in {"l", "lt", "lts"} \/ (Len(u) >= 5 /\ SubSeq(u, 1, 5) = "litro")
                THEN "lt" ELSE u

extract_unit(desc) ==
    LET starts == {i \in 1..Len(desc) : UnitMatchesAt(desc, i) # {}}
    IN  IF starts = {} THEN ""
        ELSE LET i == CHOOSE x \in starts : \A y \in starts : x <= y
                 m == CHOOSE x \in UnitMatchesAt(desc, i) :
                          \A y \in UnitMatchesAt(desc, i) : TriedBefore(x, y)
             IN  SubSeq(desc, i, i + m[1] - 1) \o " " \o Canonical(UNIT_ALTS[m[3]])

\* length of the blank run of s starting at i
RECURSIVE BlankRun(_, _)
BlankRun(s, i) == IF i <= Len(s) /\ IsSpace(At(s, i)) THEN 1 + BlankRun(s, i + 1) ELSE 0

\* \s+[.,]00\b matches at i: its length, or 0
ZerosAt(s, i) ==
    LET w == BlankRun(s, i)
    IN  IF /\ w >= 1
           /\ i + w + 2 <= Len(s)
           /\ At(s, i + w) \in {".", ","}
           /\ SubSeq(s, i + w + 1, i + w + 2) = "00"
           /\ BoundaryAfter(s, i + w + 3)
        THEN w + 3 ELSE 0

\* re.sub(r"\s+[.,]00\b", "", desc), from position i on
RECURSIVE StripFrom(_, _)
StripFrom(s, i) == IF i > Len(s) THEN ""
                   ELSE IF ZerosAt(s, i) > 0 THEN StripFrom(s, i + ZerosAt(s, i))
                   ELSE At(s, i) \o StripFrom(s, i + 1)

StripZeros(desc) == StripFrom(desc, 1)

\* ------------------------------------------------------------------------
\* Analysis of one line (word-position path) or row (table path)
\* ------------------------------------------------------------------------
SKIP_WORDS == {"fecha", "hora", "página", "pag", "cliente", "subtotal",
               "total", "cuit", "c.u.i.t", "condición", "condicion",
               "responsable", "inscripto", "domicilio", "original"}

IsSkipLine(toks) == \E sw \in SKIP_WORDS : Contains(LowerStr(Join(toks)), sw)

\* leftmost token matching CODE_RE (first of them on equal positions); 0 is None
CodeIdx(toks, xs) ==
    LET cands == {i \in 1..Len(toks) : IsCode(toks[i])}
    IN  IF cands = {} THEN 0
        ELSE CHOOSE i \in cands :
                 \A j \in cands : xs[i] < xs[j] \/ (xs[i] = xs[j] /\ i <= j)

\* first cell matching CODE_RE; 0 is none
FirstCodeCell(cells) ==
    LET cands == {i \in 1..Len(cells) : IsCode(cells[i])}
    IN  IF cands = {} THEN 0 ELSE CHOOSE i \in cands : \A j \in cands : i <= j

OnlyCodeLine(toks, code) ==
    /\ code # ""
    /\ \A i \in 1..Len(toks) :
          (~has_letters(toks[i]) /\ ~is_price_token(toks[i])) \/ toks[i] = code

RECURSIVE SelectIdx(_, _, _)
SelectIdx(toks, keep, i) ==
    IF i > Len(toks) THEN <<>>
    ELSE (IF i \in keep THEN <<toks[i]>> ELSE <<>>) \o SelectIdx(toks, keep, i + 1)

\* tokens with letters, the token at code_idx excluded
DescTokens(toks, codeIdx) ==
    SelectIdx(toks, {i \in 1..Len(toks) : i # codeIdx /\ has_letters(toks[i])}, 1)

\* cells with letters, every cell equal to the code excluded
DescParts(cells, code) ==
    SelectIdx(cells, {i \in 1..Len(cells) : cells[i] # code /\ has_letters(cells[i])}, 1)

\* [(i, v)] for the price tokens whose to_price is not None, in line order
RECURSIVE NumsFrom(_, _)
NumsFrom(toks, i) ==
    IF i > Len(toks) THEN <<>>
    ELSE (IF is_price_token(toks[i]) /\ to_price(toks[i]) # None
          THEN <<<<i, to_price(toks[i])>>>> ELSE <<>>) \o NumsFrom(toks, i + 1)

Nums(toks) == NumsFrom(toks, 1)

\* ------------------------------------------------------------------------
\* Bounds and inputs
\* ------------------------------------------------------------------------
\* lines (rows) read by one parser run
MaxLines == 3

\* lines of the current page (table) remembered in hist
HistLen == 2

\* Lines a page can hold, as page_lines returns them (tokens without blanks)
PlumberLines ==
    { <<"0123", "DETERGENTE", "LIQUIDO", "1", "lt", "$1.250,00">>,
      <<"045", "LAVANDINA", "5", "lt">>,
      <<"480", "500">>,
      <<"fecha:", "12/05/2024">>,
      <<"099", "ALCOHOL", "300">>,
      <<"099", "ALCOHOL", "350">>,
      <<"045", "JABON", "1.234,50">>,
      <<"099", "ALCOHOL">>,
      <<"$480", "$500">>,
      <<"099">>,
      <<"045", "-">>,
      <<"ALCOHOL">>,
      <<"JABON", "5lt", "$300,50">>,
      <<"099", "0">>,
      <<"045", "TOTAL", "LAVANDINA", "480">>,
      <<".00">>,
      <<"000", "ALCOHOL">>,
      <<"045", "JABON", ",00/u", "$480">> }

\* Rows a table can hold, as read_all_tables returns them (cells may hold
\* blanks or be empty)
TabulaRows ==
    PlumberLines \cup
    { <<"045", "LAVANDINA 5 lt", "480">>,
      <<"", "ALCOHOL", "$ 350">> }

\* x0 of the tokens of a line, which page_lines sorts by x0
XsChoices(n) == { [i \in 1..n |-> i], [i \in 1..n |-> IF i = 1 THEN 1 ELSE i - 1] }

\* ------------------------------------------------------------------------
\* Deduplication and sort
\* ------------------------------------------------------------------------
\* a Record is <<code, desc, unit, price>>
KeyOf(r) == <<r[1], r[2]>>

\* a dedup that keeps the first row seen for a key
DictPutFirst(acc, r) ==
    IF \E p \in 1..Len(acc) : KeyOf(acc[p]) = KeyOf(r) THEN acc ELSE Append(acc, r)

\* dedup[(code, desc)] = row : a new key is appended, a known key keeps its
\* place and takes the new row
DictPut(acc, r) ==
    IF \E p \in 1..Len(acc) : KeyOf(acc[p]) = KeyOf(r)
    THEN [p \in 1..Len(acc) |-> IF KeyOf(acc[p]) = KeyOf(r) THEN r ELSE acc[p]]
    ELSE Append(acc, r)

RECURSIVE DedupFrom(_, _, _)
DedupFrom(acc, rows, i) ==
    IF i > Len(rows) THEN acc ELSE DedupFrom(DictPut(acc, rows[i]), rows, i + 1)

RECURSIVE Reverse(_)
Reverse(q) == IF q = <<>> THEN <<>> ELSE Append(Reverse(Tail(q)), Head(q))

\* a dedup that walks the rows backwards and emits them in that order
DedupReversed(rows) == Reverse(DedupFrom(<<>>, rows, 1))

\* list(dedup.values()) after the loop over rows
Dedup(rows) == DedupFrom(<<>>, rows, 1)

SENTINEL == 1000000000

\* the text int() accepts: digits, single underscores between digits
IntBody(r) ==
    /\ r # ""
    /\ \A i \in 1..Len(r) :
          \/ IsDigit(At(r, i))
          \/ /\ At(r, i) = "_"
             /\ i > 1 /\ i < Len(r)
             /\ IsDigit(At(r, i - 1)) /\ IsDigit(At(r, i + 1))

HasSign(s) == s # "" /\ At(s, 1) \in {"+", "-"}

\* a key that puts the codes int() rejects first
code_key_zero(c) ==
    LET s == strip(c)
    IN  IF s # "" /\ AllDigits(s) THEN StrToNat(s) ELSE 0

\* int(c), or 10**9 when int() raises
code_key(c) ==
    LET s == strip(c)
        r == IF HasSign(s) THEN Rest(s) ELSE s
        n == StrToNat(Remove(r, "_"))
    IN  IF ~IntBody(r) THEN SENTINEL
        ELSE IF HasSign(s) /\ At(s, 1) = "-" THEN 0 - n ELSE n

\* a < b for strings, by code points
RECURSIVE StrLess(_, _)
StrLess(a, b) ==
    IF b = "" THEN FALSE
    ELSE IF a = "" THEN TRUE
    ELSE IF At(a, 1) = At(b, 1) THEN StrLess(Rest(a), Rest(b))
    ELSE Ord(At(a, 1)) < Ord(At(b, 1))

\* key(r) = (code_key(r[0]), r[1]) ; KeyLess is the tuple comparison
KeyLess(a, b) ==
    \/ code_key(a[1]) < code_key(b[1])
    \/ code_key(a[1]) = code_key(b[1]) /\ StrLess(a[2], b[2])

\* stable insertion: r goes after every element whose key is not greater
RECURSIVE InsertSorted(_, _)
InsertSorted(sorted, r) ==
    IF sorted = <<>> THEN <<r>>
    ELSE IF KeyLess(r, sorted[Len(sorted)])
         THEN Append(InsertSorted(SubSeq(sorted, 1, Len(sorted) - 1), r), sorted[Len(sorted)])
         ELSE Append(sorted, r)

RECURSIVE SortFrom(_, _, _)
SortFrom(acc, rows, i) ==
    IF i > Len(rows) THEN acc ELSE SortFrom(InsertSorted(acc, rows[i]), rows, i + 1)

\* rows.sort(key=...)
SortRows(rows) == SortFrom(<<>>, rows, 1)

\* ------------------------------------------------------------------------
\* State
\* ------------------------------------------------------------------------
VARIABLES
    pc,               \* "plumber", "tabula" or "done": where main is
    inPage,           \* the running parser is inside a page (table)
    rows,             \* the raw Record list of the running parser
    pending,          \* None or <<code, desc, unit>>
    last_code,        \* None or <<code>>
    last_code_age,
    total_lines,
    merged,
    carried_codes,
    result,           \* the list main holds after dedup and sort
    rowToks,          \* history: the tokens joined into each row's description
    pendingToks,      \* history: the tokens joined into pending's description
    hist,             \* history: the last HistLen lines of this page (table)
    lastKind,         \* history: the branch the last step took
    boundaryPending,  \* history: pending as the last page (table) left it
    prevPending,      \* history: pending before the last line (row)
    priceIdx,         \* history: position in the last line of the token taken as price, 0 if none
    carriedNow,       \* history: the last line (row) was given the carried code
    sinceCode,        \* history: lines (rows) read after the last code-only one, -1 if none was read
    carriesSince,     \* history: lines (rows) given the carried code since the last code-only one
    codeHere,         \* history: this page (table) has had a code-only line (row)
    words,            \* the words of a page handed to page_lines
    lines             \* what page_lines returned for them

vars == <<pc, inPage, rows, pending, last_code, last_code_age, total_lines, merged,
          carried_codes, result, rowToks, pendingToks, hist, lastKind, boundaryPending,
          prevPending, priceIdx, carriedNow, sinceCode, carriesSince, codeHere, words, lines>>

\* the aging window of a carried code
WINDOW == 2

\* last_code_age of a parser that has seen no code
NO_AGE == 999

\* what the loop body of parse_pdfplumber computes about a line
PlumberScan(toks, xs) ==
    LET ci   == CodeIdx(toks, xs)
        code == IF ci = 0 THEN "" ELSE toks[ci]
    IN  [skip  |-> IsSkipLine(toks),
         code  |-> code,
         only  |-> OnlyCodeLine(toks, code),
         dtoks |-> DescTokens(toks, ci),
         desc  |-> strip(Join(DescTokens(toks, ci))),
         unit  |-> extract_unit(strip(Join(DescTokens(toks, ci)))),
         clean |-> StripZeros(strip(Join(DescTokens(toks, ci)))),
         nums  |-> Nums(toks)]

\* what the loop body of parse_tabula computes about a row: no skip filter
TabulaScan(cells) ==
    LET ci   == FirstCodeCell(cells)
        code == IF ci = 0 THEN "" ELSE cells[ci]
    IN  [skip  |-> FALSE,
         code  |-> code,
         only  |-> OnlyCodeLine(cells, code),
         dtoks |-> DescParts(cells, code),
         desc  |-> strip(Join(DescParts(cells, code))),
         unit  |-> extract_unit(strip(Join(DescParts(cells, code)))),
         clean |-> StripZeros(strip(Join(DescParts(cells, code)))),
         nums  |-> Nums(cells)]

\* the lines a page can hold, scanned: <<toks, xs, scan>>
PlumberInput == UNION { { <<l, xs, PlumberScan(l, xs)>> : xs \in XsChoices(Len(l)) } : l \in PlumberLines }

\* the rows a table can hold, scanned: <<cells, scan>>
TabulaInput == { <<l, TabulaScan(l)>> : l \in TabulaRows }

\* a same-line price taken from the first number
SameLinePriceFirst(nums) == nums[1][2]

\* Caso A: price = nums_idx[-1][1]
SameLinePrice(nums) == nums[Len(nums)][2]

\* Caso C: price = nums_idx[0][1]
PendingPrice(nums) == nums[1][2]

\* last_code_age += 1 if last_code is not None else 999
Aged == last_code_age + (IF last_code # None THEN 1 ELSE NO_AGE)

\* an else branch that leaves pending as it was
ElsePendingKeep == pending

\* else: pending = None
ElsePending == None

\* the classification of a line that was not skipped: the values of the
\* loop's variables after it
Engine(scan) ==
    LET desc0 == scan.desc
        carry == scan.code = "" /\ last_code # None /\ last_code_age <= WINDOW /\ desc0 # ""
        code  == IF carry THEN last_code[1] ELSE scan.code
        unit  == scan.unit
        desc  == scan.clean
        base  == [rows |-> rows, rowToks |-> rowToks, pending |-> None, pendingToks |-> <<>>,
                  last_code |-> last_code, age |-> Aged, merged |-> merged,
                  carried |-> carried_codes + (IF carry THEN 1 ELSE 0), kind |-> "else",
                  priceIdx |-> 0, carriedNow |-> carry]
    IN  IF scan.only
        THEN [base EXCEPT !.last_code = <<scan.code>>, !.age = 0,
                          !.carried = carried_codes, !.kind = "onlycode",
                          !.carriedNow = FALSE]
        ELSE IF desc0 # "" /\ scan.nums # <<>> /\ code # ""
        THEN [base EXCEPT !.rows = Append(rows, <<code, desc, unit, Round(SameLinePrice(scan.nums))>>),
                          !.rowToks = Append(rowToks, scan.dtoks),
                          !.priceIdx = scan.nums[Len(scan.nums)][1],
                          !.kind = "A"]
        ELSE IF desc0 # "" /\ scan.nums = <<>> /\ code # ""
        THEN [base EXCEPT !.pending = <<code, desc, unit>>,
                          !.pendingToks = scan.dtoks,
                          !.kind = "B"]
        ELSE IF desc0 = "" /\ scan.nums # <<>> /\ pending # None
        THEN [base EXCEPT !.rows = Append(rows, <<pending[1], pending[2], pending[3],
                                                  Round(PendingPrice(scan.nums))>>),
                          !.rowToks = Append(rowToks, pendingToks),
                          !.merged = merged + 1,
                          !.priceIdx = scan.nums[1][1],
                          !.kind = "C"]
        ELSE [base EXCEPT !.pending = ElsePending,
                          !.pendingToks = IF ElsePending = None THEN <<>> ELSE pendingToks]

\* one more line read after the last code-only line, if there was one
AfterCode == IF sinceCode < 0 THEN sinceCode ELSE sinceCode + 1

Remember(h, toks) == IF Len(h) < HistLen THEN Append(h, toks) ELSE Append(Tail(h), toks)

Classified(scan, toks) ==
    LET e == Engine(scan)
    IN  /\ rows' = e.rows
        /\ rowToks' = e.rowToks
        /\ pending' = e.pending
        /\ pendingToks' = e.pendingToks
        /\ last_code' = e.last_code
        /\ last_code_age' = e.age
        /\ merged' = e.merged
        /\ carried_codes' = e.carried
        /\ lastKind' = e.kind
        /\ total_lines' = total_lines + 1
        /\ hist' = Remember(hist, toks)
        /\ prevPending' = pending
        /\ priceIdx' = e.priceIdx
        /\ carriedNow' = e.carriedNow
        /\ sinceCode' = IF e.kind = "onlycode" THEN 0 ELSE AfterCode
        /\ carriesSince' = IF e.kind = "onlycode" THEN 0
                           ELSE carriesSince + (IF e.carriedNow THEN 1 ELSE 0)
        /\ codeHere' = (codeHere \/ e.kind = "onlycode")
        /\ UNCHANGED <<pc, inPage, result, boundaryPending, words, lines>>

\* ------------------------------------------------------------------------
\* Actions
\* ------------------------------------------------------------------------
Init ==
    /\ pc = "plumber"
    /\ inPage = FALSE
    /\ rows = <<>>
    /\ pending = None
    /\ last_code = None
    /\ last_code_age = NO_AGE
    /\ total_lines = 0
    /\ merged = 0
    /\ carried_codes = 0
    /\ result = <<>>
    /\ rowToks = <<>>
    /\ pendingToks = <<>>
    /\ hist = <<>>
    /\ lastKind = "init"
    /\ boundaryPending = None
    /\ prevPending = None
    /\ priceIdx = 0
    /\ carriedNow = FALSE
    /\ sinceCode = -1
    /\ carriesSince = 0
    /\ codeHere = FALSE
    /\ words = <<>>
    /\ lines = <<>>

\* a page start that keeps pending
PlumberStartPageKeep ==
    /\ pc = "plumber"
    /\ inPage' = TRUE
    /\ last_code' = None
    /\ last_code_age' = NO_AGE
    /\ hist' = <<>>
    /\ lastKind' = "start"
    /\ boundaryPending' = pending
    /\ prevPending' = None
    /\ priceIdx' = 0
    /\ carriedNow' = FALSE
    /\ codeHere' = FALSE
    /\ UNCHANGED <<pc, rows, rowToks, pending, pendingToks, total_lines, merged,
                   carried_codes, result, sinceCode, carriesSince, words, lines>>

\* for page in pdf.pages: pending and the carried code are reset
PlumberStartPage ==
    /\ pc = "plumber"
    /\ inPage' = TRUE
    /\ pending' = None
    /\ pendingToks' = <<>>
    /\ last_code' = None
    /\ last_code_age' = NO_AGE
    /\ hist' = <<>>
    /\ lastKind' = "start"
    /\ boundaryPending' = pending
    /\ prevPending' = None
    /\ priceIdx' = 0
    /\ carriedNow' = FALSE
    /\ codeHere' = FALSE
    /\ UNCHANGED <<pc, rows, rowToks, total_lines, merged, carried_codes, result,
                   sinceCode, carriesSince, words, lines>>

\* a boilerplate line that drops pending
PlumberSkipClear(toks) ==
    /\ last_code_age' = last_code_age + 1
    /\ total_lines' = total_lines + 1
    /\ hist' = Remember(hist, toks)
    /\ lastKind' = "skip"
    /\ prevPending' = pending
    /\ pending' = None
    /\ pendingToks' = <<>>
    /\ priceIdx' = 0
    /\ carriedNow' = FALSE
    /\ sinceCode' = AfterCode
    /\ UNCHANGED <<pc, inPage, rows, rowToks, last_code, merged,
                   carried_codes, result, boundaryPending, carriesSince, codeHere,
                   words, lines>>

\* a boilerplate line: only the carried code ages
PlumberSkip(toks) ==
    /\ last_code_age' = last_code_age + 1
    /\ total_lines' = total_lines + 1
    /\ hist' = Remember(hist, toks)
    /\ lastKind' = "skip"
    /\ prevPending' = pending
    /\ priceIdx' = 0
    /\ carriedNow' = FALSE
    /\ sinceCode' = AfterCode
    /\ UNCHANGED <<pc, inPage, rows, rowToks, pending, pendingToks, last_code, merged,
                   carried_codes, result, boundaryPending, carriesSince, codeHere,
                   words, lines>>

\* one iteration of: for toks, xs in page_lines(page), the line drawn from
\* inputs and at most bound lines read
PlumberLineOf(inputs, bound) ==
    /\ pc = "plumber"
    /\ inPage
    /\ total_lines < bound
    /\ \E in \in inputs :
          IF in[3].skip
          THEN PlumberSkip(in[1])
          ELSE Classified(in[3], in[1])

PlumberLine == PlumberLineOf(PlumberInput, MaxLines)

\* the end of parse_pdfplumber and what main does with its rows
PlumberFinish ==
    /\ pc = "plumber"
    /\ IF Len(Dedup(rows)) = 0
       THEN /\ pc' = "tabula"
            /\ rows' = <<>>
            /\ rowToks' = <<>>
            /\ total_lines' = 0
            /\ merged' = 0
            /\ carried_codes' = 0
            /\ last_code' = None
            /\ last_code_age' = NO_AGE
            /\ pending' = None
            /\ pendingToks' = <<>>
            /\ inPage' = FALSE
            /\ hist' = <<>>
            /\ lastKind' = "init"
            /\ boundaryPending' = None
            /\ prevPending' = None
            /\ priceIdx' = 0
            /\ carriedNow' = FALSE
            /\ sinceCode' = -1
            /\ carriesSince' = 0
            /\ codeHere' = FALSE
            /\ UNCHANGED <<result, words, lines>>
       ELSE /\ pc' = "done"
            /\ result' = SortRows(Dedup(rows))
            /\ UNCHANGED <<inPage, rows, rowToks, pending, pendingToks, last_code,
                           last_code_age, total_lines, merged, carried_codes, hist,
                           lastKind, boundaryPending, prevPending, priceIdx, carriedNow,
                           sinceCode, carriesSince, codeHere, words, lines>>

\* for df in dfs: only pending is reset
TabulaStartTable ==
    /\ pc = "tabula"
    /\ inPage' = TRUE
    /\ pending' = None
    /\ pendingToks' = <<>>
    /\ hist' = <<>>
    /\ lastKind' = "start"
    /\ boundaryPending' = pending
    /\ prevPending' = None
    /\ priceIdx' = 0
    /\ carriedNow' = FALSE
    /\ codeHere' = FALSE
    /\ UNCHANGED <<pc, rows, rowToks, last_code, last_code_age, total_lines, merged,
                   carried_codes, result, sinceCode, carriesSince, words, lines>>

\* one iteration of: for _, r in df.iterrows(), the row drawn from inputs and
\* at most bound rows read
TabulaRowOf(inputs, bound) ==
    /\ pc = "tabula"
    /\ inPage
    /\ total_lines < bound
    /\ \E in \in inputs : Classified(in[2], in[1])

TabulaRow == TabulaRowOf(TabulaInput, MaxLines)

\* the end of parse_tabula, then the sort of main
TabulaFinish ==
    /\ pc = "tabula"
    /\ pc' = "done"
    /\ result' = SortRows(Dedup(rows))
    /\ UNCHANGED <<inPage, rows, rowToks, pending, pendingToks, last_code, last_code_age,
                   total_lines, merged, carried_codes, hist, lastKind, boundaryPending,
                   prevPending, priceIdx, carriedNow, sinceCode, carriesSince, codeHere,
                   words, lines>>

Next ==
    \/ PlumberStartPage
    \/ PlumberLine
    \/ PlumberFinish
    \/ TabulaStartTable
    \/ TabulaRow
    \/ TabulaFinish

Spec == Init /\ [][Next]_vars

\* ------------------------------------------------------------------------
\* The parsers on longer pages of few kinds of line: the carried code
\* ------------------------------------------------------------------------
\* lines (rows) read by one parser run
MaxCarryLines == 4

\* a code-only line, a code-less description, a line of no use, a boilerplate
\* line and a line of prices
CarryLines ==
    { <<"099">>, <<"ALCOHOL">>, <<".00">>, <<"fecha:", "12/05/2024">>, <<"$480", "$500">> }

CarryPlumberInput == {in \in PlumberInput : in[1] \in CarryLines}

CarryTabulaInput == {in \in TabulaInput : in[1] \in CarryLines}

CarryPlumberLine == PlumberLineOf(CarryPlumberInput, MaxCarryLines)

CarryTabulaRow == TabulaRowOf(CarryTabulaInput, MaxCarryLines)

CarryNext ==
    \/ PlumberStartPage
    \/ CarryPlumberLine
    \/ PlumberFinish
    \/ TabulaStartTable
    \/ CarryTabulaRow
    \/ TabulaFinish

CarrySpec == Init /\ [][CarryNext]_vars

\* ------------------------------------------------------------------------
\* The dedup and sort of main on any Record list
\* ------------------------------------------------------------------------
\* rows handed to the sort
MaxSortLen == 3

SortCodes == {"045", "45", "0123", "99", "S/C"}

SortDescs == {"ALCOHOL", "JABON"}

SortRecords == {<<c, d, "", 1>> : c \in SortCodes, d \in SortDescs}

SortInit ==
    /\ pc = "sort"
    /\ rows \in UNION {[1..n -> SortRecords] : n \in 0..MaxSortLen}
    /\ inPage = FALSE
    /\ pending = None
    /\ last_code = None
    /\ last_code_age = NO_AGE
    /\ total_lines = 0
    /\ merged = 0
    /\ carried_codes = 0
    /\ result = <<>>
    /\ rowToks = <<>>
    /\ pendingToks = <<>>
    /\ hist = <<>>
    /\ lastKind = "init"
    /\ boundaryPending = None
    /\ prevPending = None
    /\ priceIdx = 0
    /\ carriedNow = FALSE
    /\ sinceCode = -1
    /\ carriesSince = 0
    /\ codeHere = FALSE
    /\ words = <<>>
    /\ lines = <<>>

\* dedup, then rows.sort(key=lambda r: (code_key(r[0]), r[1]))
SortDone ==
    /\ pc = "sort"
    /\ pc' = "done"
    /\ result' = SortRows(Dedup(rows))
    /\ UNCHANGED <<inPage, rows, rowToks, pending, pendingToks, last_code, last_code_age,
                   total_lines, merged, carried_codes, hist, lastKind, boundaryPending,
                   prevPending, priceIdx, carriedNow, sinceCode, carriesSince, codeHere,
                   words, lines>>

SortNext == SortDone

SortSpec == SortInit /\ [][SortNext]_vars

\* ------------------------------------------------------------------------
\* page_lines on any list of words
\* ------------------------------------------------------------------------
\* words of a page
MaxWords == 3

\* vertical positions a word can have: 0 .. MaxTop steps of 2.0 points
MaxTop == 2

\* horizontal positions a word can have: 0 .. MaxX
MaxX == 1

\* y_tol=3.5, in tenths of a point
Y_TOL == 35

\* the "top" values of words, in tenths of a point
Tops == {20 * k : k \in 0..MaxTop}

\* what extract_words can return: words in any order, each with its position
\* in that list as identity
WordLists ==
    UNION { { [i \in 1..n |-> [top |-> f[i][1], x0 |-> f[i][2], id |-> i]] :
                f \in [1..n -> Tops \X (0..MaxX)] } : n \in 0..MaxWords }

Abs(n) == IF n < 0 THEN -n ELSE n

\* key=lambda w: (w["top"], w["x0"])
TopX0Less(a, b) == a.top < b.top \/ (a.top = b.top /\ a.x0 < b.x0)

\* the place of w in a list sorted by (top, x0): after every word not greater
RECURSIVE InsertByTopX0(_, _)
InsertByTopX0(acc, w) ==
    IF acc = <<>> THEN <<w>>
    ELSE IF TopX0Less(w, acc[1]) THEN <<w>> \o acc
    ELSE <<acc[1]>> \o InsertByTopX0(Tail(acc), w)

RECURSIVE SortByTopX0From(_, _, _)
SortByTopX0From(acc, ws, i) ==
    IF i > Len(ws) THEN acc ELSE SortByTopX0From(InsertByTopX0(acc, ws[i]), ws, i + 1)

\* words.sort(key=lambda w: (w["top"], w["x0"])): stable
SortByTopX0(ws) == SortByTopX0From(<<>>, ws, 1)

RECURSIVE InsertByX0(_, _)
InsertByX0(acc, w) ==
    IF acc = <<>> THEN <<w>>
    ELSE IF w.x0 < acc[1].x0 THEN <<w>> \o acc
    ELSE <<acc[1]>> \o InsertByX0(Tail(acc), w)

RECURSIVE SortByX0From(_, _, _)
SortByX0From(acc, ws, i) ==
    IF i > Len(ws) THEN acc ELSE SortByX0From(InsertByX0(acc, ws[i]), ws, i + 1)

\* sorted(current, key=lambda x: x["x0"]): stable
SortByX0(ws) == SortByX0From(<<>>, ws, 1)

\* a reference that follows the last word added
NextRefLast(cur_top, w) == <<w.top>>

\* cur_top = w["top"] if cur_top is None else cur_top
NextRef(cur_top, w) == IF cur_top = None THEN <<w.top>> ELSE cur_top

\* the loop of page_lines over the sorted words, and the flush after it
RECURSIVE Cluster(_, _, _, _, _)
Cluster(ws, i, ls, current, cur_top) ==
    IF i > Len(ws)
    THEN IF current # <<>> THEN Append(ls, SortByX0(current)) ELSE ls
    ELSE IF cur_top = None \/ Abs(ws[i].top - cur_top[1]) <= Y_TOL
    THEN Cluster(ws, i + 1, ls, Append(current, ws[i]), NextRef(cur_top, ws[i]))
    ELSE Cluster(ws, i + 1, Append(ls, SortByX0(current)), <<ws[i]>>, <<ws[i].top>>)

\* the Lines of a page, each the list of its words; out holds the text and
\* the x0 of these words in this order
page_lines(ws) == Cluster(SortByTopX0(ws), 1, <<>>, <<>>, None)

LinesInit ==
    /\ pc = "lines"
    /\ words \in WordLists
    /\ lines = <<>>
    /\ inPage = FALSE
    /\ rows = <<>>
    /\ pending = None
    /\ last_code = None
    /\ last_code_age = NO_AGE
    /\ total_lines = 0
    /\ merged = 0
    /\ carried_codes = 0
    /\ result = <<>>
    /\ rowToks = <<>>
    /\ pendingToks = <<>>
    /\ hist = <<>>
    /\ lastKind = "init"
    /\ boundaryPending = None
    /\ prevPending = None
    /\ priceIdx = 0
    /\ carriedNow = FALSE
    /\ sinceCode = -1
    /\ carriesSince = 0
    /\ codeHere = FALSE

\* one call of page_lines
PageLines ==
    /\ pc = "lines"
    /\ pc' = "done"
    /\ lines' = page_lines(words)
    /\ UNCHANGED <<inPage, rows, rowToks, pending, pendingToks, last_code, last_code_age,
                   total_lines, merged, carried_codes, result, hist, lastKind,
                   boundaryPending, prevPending, priceIdx, carriedNow, sinceCode,
                   carriesSince, codeHere, words>>

LinesNext == PageLines

LinesSpec == LinesInit /\ [][LinesNext]_vars

\* ------------------------------------------------------------------------
\* Properties
\* ------------------------------------------------------------------------
LastLine == hist[Len(hist)]

LastRow == rows[Len(rows)]

NoLetters(toks) == \A i \in 1..Len(toks) : ~has_letters(toks[i])

\* positions of the valid price tokens of a line
ValidPriceIdx(toks) ==
    {i \in 1..Len(toks) : is_price_token(toks[i]) /\ to_price(toks[i]) # None}

\* a line of numbers alone: no letters, at least one valid price token
PriceOnly(toks) == NoLetters(toks) /\ ValidPriceIdx(toks) # {}

\* rounded value of the leftmost valid price token; -1 when there is none
FirstValidPrice(toks) ==
    IF ValidPriceIdx(toks) = {} THEN -1
    ELSE Round(to_price(toks[CHOOSE i \in ValidPriceIdx(toks) :
                                 \A j \in ValidPriceIdx(toks) : i <= j]))

\* rounded value of the rightmost valid price token; -1 when there is none
LastValidPrice(toks) ==
    IF ValidPriceIdx(toks) = {} THEN -1
    ELSE Round(to_price(toks[CHOOSE i \in ValidPriceIdx(toks) :
                                 \A j \in ValidPriceIdx(toks) : i >= j]))

\* the facts above, for every line and row of the inputs:
\* <<line, price-only, first price, last price, boilerplate>>
LineFacts ==
    { <<l, PriceOnly(l), FirstValidPrice(l), LastValidPrice(l), IsSkipLine(l)>> :
        l \in PlumberLines \cup TabulaRows }

FactsOf(l) == CHOOSE f \in LineFacts : f[1] = l

\* the descriptions the inputs can give, with the tokens they are joined from
DescFacts ==
    { <<in[3].dtoks, StripZeros(strip(Join(in[3].dtoks)))>> : in \in PlumberInput } \cup
    { <<in[2].dtoks, StripZeros(strip(Join(in[2].dtoks)))>> : in \in TabulaInput }

\* C1: pending is empty when the first line of a page (table) is examined,
\* and a price-only first line of a page (table) produces no Record, whatever
\* description the page (table) before it left pending.
C1_PendingStopsAtBoundary ==
    /\ (inPage /\ hist = <<>>) => pending = None
    /\ (Len(hist) = 1 /\ FactsOf(hist[1])[2]) => lastKind \notin {"A", "C"}

\* C1 happens: a page (table) ended with a description pending and the next
\* one started with a price-only line, which was discarded.
C1_Witness ==
    /\ boundaryPending # None
    /\ Len(hist) = 1
    /\ FactsOf(hist[1])[2]
    /\ lastKind = "else"
    /\ rows = <<>>

\* C2: a Record finalized from its own line carries the rounded value of the
\* last valid price token of that line; a Record finalized from a pending
\* description carries the rounded value of the first valid price token of
\* the price-only line, and the code, description and unit of pending.
C2_PriceSelection ==
    /\ lastKind = "A" => LastRow[4] = FactsOf(LastLine)[4]
    /\ lastKind = "C" =>
          /\ LastRow[4] = FactsOf(LastLine)[3]
          /\ <<LastRow[1], LastRow[2], LastRow[3]>> = prevPending

\* C2 happens: a pending description was completed by a line whose first and
\* last valid prices differ.
C2_Witness ==
    /\ lastKind = "C"
    /\ FactsOf(LastLine)[3] # FactsOf(LastLine)[4]
    /\ LastRow = <<"099", "ALCOHOL", "", 480>>

\* position of the last raw row with the key of rows[k]
LastWithKey(k) ==
    CHOOSE i \in 1..Len(rows) :
        /\ KeyOf(rows[i]) = KeyOf(rows[k])
        /\ \A j \in 1..Len(rows) : KeyOf(rows[j]) = KeyOf(rows[k]) => j <= i

\* C3: the final list holds at most one Record per (code, description), and
\* for each key the Record is the last one finalized for it.
C3_LastWins ==
    pc = "done" =>
        /\ \A i, j \in 1..Len(result) : KeyOf(result[i]) = KeyOf(result[j]) => i = j
        /\ \A k \in 1..Len(rows) : \E i \in 1..Len(result) : result[i] = rows[LastWithKey(k)]
        /\ \A i \in 1..Len(result) : \E k \in 1..Len(rows) : result[i] = rows[k]

\* C3 happens: 099 / ALCOHOL was finalized with 300, then with 350.
C3_Witness ==
    /\ pc = "done"
    /\ rows = << <<"099", "ALCOHOL", "", 300>>, <<"099", "ALCOHOL", "", 350>> >>
    /\ result = << <<"099", "ALCOHOL", "", 350>> >>

\* C4: the line 0123 DETERGENTE LIQUIDO 1 lt $1.250,00, alone, produces
\* exactly the Record (0123, DETERGENTE LIQUIDO, 1 lt, 1250).
C4_DetergenteRecord ==
    (total_lines = 1 /\ hist = << <<"0123", "DETERGENTE", "LIQUIDO", "1", "lt", "$1.250,00">> >>)
        => rows = << <<"0123", "DETERGENTE LIQUIDO", "1 lt", 1250>> >>

\* C5: line A (045 LAVANDINA 5 lt) emits nothing and becomes pending; line B
\* (480 500) right after it completes it: exactly one Record,
\* (045, LAVANDINA 5 lt, 5 lt, 480).
C5_LavandinaMerge ==
    /\ (total_lines = 1 /\ hist = << <<"045", "LAVANDINA", "5", "lt">> >>)
          => (rows = <<>> /\ pending = <<"045", "LAVANDINA 5 lt", "5 lt">>)
    /\ (total_lines = 2 /\ hist = << <<"045", "LAVANDINA", "5", "lt">>, <<"480", "500">> >>)
          => rows = << <<"045", "LAVANDINA 5 lt", "5 lt", 480>> >>

\* C6: in both paths a line (row) whose text holds a boilerplate marker
\* produces no Record.
C6_BoilerplateNoRecord ==
    (Len(hist) >= 1 /\ FactsOf(LastLine)[5]) => lastKind \notin {"A", "C"}

\* C7: the token 1.234,50 parses to 1234.50 and the Record of its line has
\* the price 1235.
C7_ThousandsAndDecimals ==
    (Len(hist) >= 1 /\ LastLine = <<"045", "JABON", "1.234,50">>)
        => /\ to_price("1.234,50") = <<123450, 100>>
           /\ lastKind = "A"
           /\ LastRow[4] = 1235

WellFormed(r) == IsCode(r[1]) /\ r[2] # "" /\ r[4] \in Nat /\ r[4] >= PRICE_FLOOR

\* C8: every Record of the raw list and of the final list has a code of 2 to
\* 6 digits, a non-empty description joined from tokens none of which is a
\* code token, and an integer price not below the floor.
C8_RecordShape ==
    /\ \A i \in 1..Len(rows) :
          /\ WellFormed(rows[i])
          /\ rowToks[i] # <<>>
          /\ <<rowToks[i], rows[i][2]>> \in DescFacts
          /\ \A t \in 1..Len(rowToks[i]) : ~IsCode(rowToks[i][t])
    /\ \A i \in 1..Len(result) :
          /\ WellFormed(result[i])
          /\ \E k \in 1..Len(rows) : rows[k] = result[i]

\* C8 happens: the final list holds several Records, one priced at the floor
\* and one completed from a pending description.
C8_Witness ==
    /\ pc = "done"
    /\ Len(result) >= 2
    /\ \E i \in 1..Len(result) : result[i][4] = PRICE_FLOOR
    /\ merged = 1

Parsable(c) == c # "" /\ AllDigits(c)

\* C9: the final list is ordered by the number the code reads as, then by
\* description; a code that reads as no number comes after every numeric one.
C9_Sorted ==
    pc = "done" =>
        /\ Len(result) = Len(Dedup(rows))
        /\ \A k \in 1..Len(Dedup(rows)) : \E i \in 1..Len(result) : result[i] = Dedup(rows)[k]
        /\ \A i, j \in 1..Len(result) :
              i < j =>
                 /\ Parsable(result[j][1]) => Parsable(result[i][1])
                 /\ (Parsable(result[i][1]) /\ Parsable(result[j][1])) =>
                       StrToNat(result[i][1]) <= StrToNat(result[j][1])
                 /\ (Parsable(result[i][1]) = Parsable(result[j][1])
                     /\ (Parsable(result[i][1]) => StrToNat(result[i][1]) = StrToNat(result[j][1])))
                       => ~StrLess(result[j][2], result[i][2])

\* C9 happens: numeric order differs from text order and from input order,
\* and a code that reads as no number is sorted last.
C9_Witness ==
    /\ pc = "done"
    /\ rows = << <<"S/C", "JABON", "", 1>>, <<"0123", "JABON", "", 1>>, <<"045", "JABON", "", 1>> >>
    /\ result = << <<"045", "JABON", "", 1>>, <<"0123", "JABON", "", 1>>, <<"S/C", "JABON", "", 1>> >>

\* C10: deduplicating the output of the dedup step changes nothing.
C10_DedupIdempotent == Dedup(Dedup(rows)) = Dedup(rows)

\* C10 happens: the raw list holds a repeated key between two other rows.
C10_Witness ==
    /\ Len(rows) = 3
    /\ Len(Dedup(rows)) = 2
    /\ KeyOf(rows[1]) = KeyOf(rows[3])

\* tokens of the inputs whose value is below the price floor
BelowFloorTokens == {".00", "0", "000"}

\* tokens of the inputs without letters that do not read as a decimal
UnparsableTokens == {"-", "1.234,50", "$1.250,00"}

NoPriceToken(t) == t \in BelowFloorTokens \cup UnparsableTokens

\* C11: a token whose price parse gives none is never the token a Record's
\* price is taken from, and a line made of such tokens alone finalizes no
\* Record; the parser goes on to the next line.
C11_NonePriceIgnored ==
    /\ priceIdx # 0 => ~NoPriceToken(LastLine[priceIdx])
    /\ lastKind \in {"A", "C"} => priceIdx \in 1..Len(LastLine)
    /\ (hist # <<>> /\ \A i \in 1..Len(LastLine) : NoPriceToken(LastLine[i])) =>
          (lastKind \in {"else", "onlycode"} /\ priceIdx = 0)

\* C11 happens: a line of ".00" alone was passed over, and the next line, which
\* holds the unparsable "1.234,50", was still read and finalized a Record with
\* another token as price.
C11_Witness ==
    /\ hist = << <<".00">>, <<"045", "JABON", "1.234,50">> >>
    /\ lastKind = "A"
    /\ priceIdx = 1
    /\ Len(rows) = 1
    /\ \A t \in BelowFloorTokens \cup UnparsableTokens : to_price(t) = None

\* C12: a line (row) is given the code of a code-only line only when it is
\* the first or the second line read after that code-only line, never the
\* third or a later one.
C12_CarryWithinTwoLines == carriedNow => sinceCode \in 1..2

\* C13: between two code-only lines (rows) at most one line is given the
\* carried code: once a description has inherited it, no later line does.
C13_CarriedCodeConsumed == carriesSince <= 1

\* tokens with letters, in line order
LetterToks(toks) == SelectIdx(toks, {i \in 1..Len(toks) : has_letters(toks[i])}, 1)

\* the lines and rows of the inputs made of one code token and, besides it,
\* letter-bearing tokens alone, with the position of the code:
\* <<line, code position>>
OwnCodeDescLines ==
    { <<l, c>> \in (PlumberLines \cup TabulaRows) \X (1..6) :
        /\ c <= Len(l)
        /\ Len(l) >= 2
        /\ IsCode(l[c])
        /\ ~IsSkipLine(l)
        /\ \A i \in 1..Len(l) : i # c => (has_letters(l[i]) /\ ~IsCode(l[i])) }

\* C14: a line that is one code token plus letter-bearing tokens finalizes no
\* Record, takes no token as a price and leaves pending holding its code and
\* its description.
C14_OwnCodeDescriptionPends ==
    \A lc \in OwnCodeDescLines :
        (hist # <<>> /\ LastLine = lc[1]) =>
            /\ lastKind = "B"
            /\ priceIdx = 0
            /\ pending # None
            /\ pending[1] = lc[1][lc[2]]
            /\ pendingToks = LetterToks(lc[1])

\* the lines and rows of the inputs that hold a code token and, besides it,
\* only tokens that have no letters and are not valid price tokens, with the
\* position of the code: <<line, code position>>
CodeOnlyLines ==
    { <<l, c>> \in (PlumberLines \cup TabulaRows) \X (1..6) :
        /\ c <= Len(l)
        /\ IsCode(l[c])
        /\ \A i \in 1..Len(l) : i # c => (~has_letters(l[i]) /\ i \notin ValidPriceIdx(l)) }

\* C15: a line that holds a code token and, besides it, no letter-bearing and
\* no valid price token finalizes no Record, leaves pending empty and leaves
\* its code as the last code seen, with age 0, whether or not a description
\* was pending before it.
C15_CodeOnlyLine ==
    \A lc \in CodeOnlyLines :
        (hist # <<>> /\ LastLine = lc[1]) =>
            /\ lastKind \notin {"A", "C"}
            /\ pending = None
            /\ last_code = <<lc[1][lc[2]]>>
            /\ last_code_age = 0

\* the lines of the inputs that hold prices alone: no letters, no code token,
\* at least one valid price token
PurePriceLines ==
    { l \in PlumberLines : PriceOnly(l) /\ \A i \in 1..Len(l) : ~IsCode(l[i]) }

\* the step that reads a boilerplate line in the word-position path
SkipStep == pc = "plumber" /\ total_lines' = total_lines + 1 /\ lastKind' = "skip"

\* C16: in the word-position path a boilerplate line changes neither pending
\* nor the carried code nor the rows, and ages the carried code by one; a line
\* of prices alone that follows a boilerplate line, with a description pending
\* before it, finalizes the merged Record.
C16_SkipKeepsPending ==
    /\ [][SkipStep => /\ pending' = pending
                      /\ last_code' = last_code
                      /\ last_code_age' = last_code_age + 1
                      /\ rows' = rows]_vars
    /\ []((/\ pc = "plumber"
           /\ Len(hist) >= 2
           /\ FactsOf(hist[Len(hist) - 1])[5]
           /\ LastLine \in PurePriceLines
           /\ prevPending # None)
          => (/\ lastKind = "C"
              /\ <<LastRow[1], LastRow[2], LastRow[3]>> = prevPending))

\* C16 happens: a description was left pending, a boilerplate line followed,
\* and the line of prices after it completed the Record.
C16_Witness ==
    /\ pc = "plumber"
    /\ total_lines = 3
    /\ Len(hist) >= 2
    /\ hist[Len(hist) - 1] = <<"fecha:", "12/05/2024">>
    /\ LastLine = <<"$480", "$500">>
    /\ lastKind = "C"
    /\ rows = << <<"000", "ALCOHOL", "", 480>> >>

\* the last line (row) was classified, not skipped as boilerplate
LastClassified == hist # <<>> /\ lastKind \in {"onlycode", "A", "B", "C", "else"}

\* C17: after a line (row) that is classified, pending is empty or holds the
\* description made of that line's own letter-bearing tokens; a Record merged
\* from pending on a line (row) that follows a classified one holds the
\* description of that preceding line, which is in the same page (table).
C17_PendingOneLine ==
    /\ LastClassified =>
          \/ pending = None
          \/ /\ lastKind = "B"
             /\ pendingToks = LetterToks(LastLine)
             /\ <<pendingToks, pending[2]>> \in DescFacts
    /\ lastKind = "C" =>
          /\ Len(hist) >= 2
          /\ prevPending # None
          /\ rowToks[Len(rowToks)] # <<>>
          /\ (pc = "tabula" \/ ~FactsOf(hist[Len(hist) - 1])[5]) =>
                rowToks[Len(rowToks)] = LetterToks(hist[Len(hist) - 1])

\* C17 happens: a description was stored pending by one line and the line of
\* no use after it, which was classified, left pending empty.
C17_Witness ==
    /\ Len(hist) >= 2
    /\ hist[Len(hist) - 1] = <<"000", "ALCOHOL">>
    /\ LastLine = <<".00">>
    /\ lastKind = "else"
    /\ prevPending = <<"000", "ALCOHOL", "">>
    /\ pending = None
    /\ rows = <<>>

\* C18: a line (row) is given a carried code only when the code-only line
\* (row) it comes from is in the same page (table).
C18_CarryStaysInPage == carriedNow => codeHere

\* the places <<line, position>> of the Lines page_lines returned
Places == {<<i, j>> \in (1..Len(lines)) \X (1..Len(words)) : j <= Len(lines[i])}

\* the vertical position of the reference word of a Line: its first word in
\* the (top, x0) order, which has the least top of the Line
RefTop(l) == CHOOSE t \in {l[j].top : j \in 1..Len(l)} : \A j \in 1..Len(l) : t <= l[j].top

\* C19: page_lines puts every word in exactly one Line; every word of a Line
\* is within the tolerance of the vertical position of the Line's reference
\* word; the Lines come in non-decreasing vertical order of their reference
\* words; inside a Line the words are in non-decreasing horizontal order.
C19_LineBuilder ==
    pc = "done" =>
        /\ \A k \in 1..Len(words) :
              \E p \in Places :
                 /\ lines[p[1]][p[2]] = words[k]
                 /\ \A q \in Places : lines[q[1]][q[2]].id = k => q = p
        /\ \A i \in 1..Len(lines) : Len(lines[i]) >= 1 /\ Len(lines[i]) <= Len(words)
        /\ \A p \in Places : lines[p[1]][p[2]] \in {words[k] : k \in 1..Len(words)}
        /\ \A p \in Places : Abs(lines[p[1]][p[2]].top - RefTop(lines[p[1]])) <= Y_TOL
        /\ \A i \in 1..(Len(lines) - 1) : RefTop(lines[i]) <= RefTop(lines[i + 1])
        /\ \A p, q \in Places :
              (p[1] = q[1] /\ p[2] < q[2]) => lines[p[1]][p[2]].x0 <= lines[q[1]][q[2]].x0

\* C19 happens: three words given bottom-up; the lowest is within the
\* tolerance of the middle one but not of the top one, which is the
\* reference of the first Line, so it starts a second Line; in the first
\* Line the word further left comes first although it is lower.
C19_Witness ==
    /\ pc = "done"
    /\ words = << [top |-> 40, x0 |-> 0, id |-> 1],
                  [top |-> 20, x0 |-> 0, id |-> 2],
                  [top |-> 0, x0 |-> 1, id |-> 3] >>
    /\ lines = << << [top |-> 20, x0 |-> 0, id |-> 2], [top |-> 0, x0 |-> 1, id |-> 3] >>,
                  << [top |-> 40, x0 |-> 0, id |-> 1] >> >>

====
